---- MODULE Spec2Model ----
(***************************************************************************)
(* A model of rvidmaker: the YouTube uploader (uploaders/youtube.py) and   *)
(* the Reddit reader (readers/reddit.py).                                  *)
(*                                                                         *)
(* Each component has its own state variable (a record) and its own        *)
(* specification:                                                          *)
(*   SpecUpload    YouTubeUploader.upload and its retry loop               *)
(*   SpecReader    RedditReader.get_hot_articles / get_top_articles        *)
(*   SpecComments  RedditArticle.get_comments / _expand_comment            *)
(*   SpecVideo     RedditArticle.has_video / get_video                     *)
(*                                                                         *)
(* Python's Optional values are sequences of length at most one:           *)
(* None is <<>> and a present value x is <<x>>.                            *)
(***************************************************************************)
EXTENDS Integers, Sequences, FiniteSets

VARIABLES up, rd, cm, vd

vars == <<up, rd, cm, vd>>

None == <<>>

Some(x) == <<x>>

\* The components that a specification leaves alone stay at these values.
IdleUp == [pc |-> "idle"]

IdleRd == [pc |-> "idle"]

IdleCm == [pc |-> "idle"]

IdleVd == [pc |-> "idle"]

(***************************************************************************)
(* uploaders/youtube.py                                                    *)
(***************************************************************************)

VALID_PRIVACY_STATUSES == {"public", "private", "unlisted"}

MAX_RETRIES == 10

RETRIABLE_EXCEPTIONS == {"HttpLib2Error", "IOError"}

RETRIABLE_STATUS_CODES == {500, 502, 503, 504}

\* ---- bounds of the upload model ----

\* next_chunk calls of one upload: caps the loop while the server keeps
\* answering "in progress".
MaxCalls == 13

\* random.random() is k / RandDen for k in 0 .. RandDen - 1.
RandDen == 2

\* ---- inputs ----

\* The OAuth file of the credential store: absent, holding nothing, holding
\* an invalid credential, holding a valid one.
OAuthFiles ==
    { [exists |-> FALSE, creds |-> None],
      [exists |-> TRUE, creds |-> None],
      [exists |-> TRUE, creds |-> Some([invalid |-> TRUE])],
      [exists |-> TRUE, creds |-> Some([invalid |-> FALSE])] }

GoodTypes ==
    [path |-> "str", title |-> "str", desc |-> "str", tags |-> "set",
     category |-> "int"]

\* The arguments of upload: the type of each, whether path names a file,
\* category and privacy_status.
UploadArgs ==
    { [types |-> GoodTypes, isfile |-> f, category |-> c, privacy_status |-> p] :
          f \in BOOLEAN, c \in {-1, 0, 22},
          p \in VALID_PRIVACY_STATUSES \cup {"hidden"} }
    \cup
    { [types |-> [GoodTypes EXCEPT ![k] = "NoneType"], isfile |-> FALSE,
       category |-> 0, privacy_status |-> "hidden"] : k \in DOMAIN GoodTypes }

\* What one call of insert_request.next_chunk() does: it returns a response
\* (None while in progress, else a dict with or without "id") or raises.
ChunkOutcomes ==
    { [kind |-> "response", response |-> None, status |-> 0] }
    \cup { [kind |-> "response", response |-> Some([id |-> Some(v)]), status |-> 0] :
               v \in {"abc123", "xyz789"} }
    \cup { [kind |-> "response", response |-> Some([id |-> None]), status |-> 0] }
    \cup { [kind |-> "HttpError", response |-> None, status |-> s] :
               s \in {403, 404, 500, 501, 502, 503, 504} }
    \cup { [kind |-> k, response |-> None, status |-> 0] :
               k \in RETRIABLE_EXCEPTIONS \cup {"KeyError"} }

\* The vocabulary of the upload protocol, by which the outcomes of next_chunk
\* are counted whatever the loop makes of them. A retriable fault: a
\* transport fault, or an HTTP fault with status 500, 502, 503 or 504.
RetriableFault(o) ==
    \/ o.kind \in {"HttpLib2Error", "IOError"}
    \/ o.kind = "HttpError" /\ o.status \in {500, 502, 503, 504}

\* An HTTP fault with any other status.
NonRetriableHttpFault(o) ==
    o.kind = "HttpError" /\ o.status \notin {500, 502, 503, 504}

\* A response that carries an id.
IdResponse(o) ==
    o.kind = "response" /\ o.response # None /\ o.response[1].id # None

\* ---- helpers ----

Returned(v) == [kind |-> "return", exc |-> "", value |-> v, msg |-> ""]

Raised(e, m) == [kind |-> "raise", exc |-> e, value |-> "", msg |-> m]

NoOutcome == [kind |-> "none", exc |-> "", value |-> "", msg |-> ""]

\* _get_creds: the stored credential when the file exists and the credential
\* is present and valid; otherwise the method falls off its end (None).
GetCreds(oauth) ==
    IF oauth.exists /\ oauth.creds # None /\ ~oauth.creds[1].invalid
    THEN oauth.creds
    ELSE None

\* "id" in response
HasId(response) == response.id # None

\* Exhausted off by one: the tenth retry already gives up.
ExhaustedEarly(retry) == retry >= MAX_RETRIES

\* retry > _MAX_RETRIES
Exhausted(retry) == retry > MAX_RETRIES

\* IsRetriableStatus without 503.
IsRetriableStatusNarrow(status) == status \in {500, 502, 504}

\* IsRetriableStatus for every 5xx status.
IsRetriableStatusWide(status) == status >= 500

\* e.resp.status in _RETRIABLE_STATUS_CODES
IsRetriableStatus(status) == status \in RETRIABLE_STATUS_CODES

\* The first failing argument check of upload, in the order of the code;
\* None when every check passes.
ValidateUpload(args) ==
    IF args.types.path # "str" THEN Some(Raised("TypeError", "path"))
    ELSE IF args.types.title # "str" THEN Some(Raised("TypeError", "title"))
    ELSE IF args.types.desc # "str" THEN Some(Raised("TypeError", "desc"))
    ELSE IF args.types.tags # "set" THEN Some(Raised("TypeError", "tags"))
    ELSE IF args.types.category # "int" THEN Some(Raised("TypeError", "category"))
    ELSE IF ~args.isfile THEN Some(Raised("ValueError", "path"))
    ELSE IF args.category <= 0 THEN Some(Raised("ValueError", "category"))
    ELSE IF args.privacy_status \notin VALID_PRIVACY_STATUSES
         THEN Some(Raised("ValueError", "privacy_status"))
    ELSE None

\* ---- state ----

\* Before upload is called. retry, error and response are the locals of
\* _resumable_upload; calls, sleeps, faults, nulls, last and slept record what
\* happened: the next_chunk calls, the time.sleep calls, the retriable faults
\* next_chunk raised, its in-progress (None) responses, its last outcome and
\* the last sleep.
UploadStart(oauth) ==
    [pc |-> "start", oauth |-> oauth, args |-> None, built |-> FALSE,
     response |-> None, error |-> None, retry |-> 0,
     calls |-> 0, sleeps |-> 0, faults |-> 0, nulls |-> 0,
     last |-> None, slept |-> None, outcome |-> NoOutcome]

InitUpload ==
    /\ up \in {UploadStart(o) : o \in OAuthFiles}
    /\ rd = IdleRd
    /\ cm = IdleCm
    /\ vd = IdleVd

\* upload(...) up to the call of _resumable_upload: the argument checks, the
\* credential lookup and the construction of the API client and the request.
Upload(args) ==
    /\ up.pc = "start"
    /\ LET bad == ValidateUpload(args)
           creds == GetCreds(up.oauth)
       IN up' = IF bad # None
                THEN [up EXCEPT !.pc = "ended", !.args = Some(args),
                                !.outcome = bad[1]]
                ELSE IF creds = None
                THEN [up EXCEPT !.pc = "ended", !.args = Some(args),
                                !.outcome = Returned("AuthException")]
                ELSE [up EXCEPT !.pc = "SENDING", !.args = Some(args),
                                !.built = TRUE]
    /\ UNCHANGED <<rd, cm, vd>>

\* One pass through the try statement of the while loop: next_chunk answers
\* o. The pass ends the call (return / raise), or reaches line 125, where the
\* loop goes on to the backoff when error is set and back to next_chunk
\* otherwise.
NextChunk(o) ==
    /\ up.pc = "SENDING"
    /\ up.calls < MaxCalls
    /\ LET seen == [up EXCEPT !.calls = @ + 1, !.last = Some(o),
                               !.faults = IF RetriableFault(o) THEN @ + 1 ELSE @,
                               !.nulls = IF o.kind = "response" /\ o.response = None
                                         THEN @ + 1 ELSE @]
           fail(m) == [seen EXCEPT !.pc = "ended",
                                   !.outcome = Raised("UploadException", m)]
           retriable(m) == [seen EXCEPT !.pc = "RETRY_WAIT", !.error = Some(m)]
       IN up' =
            IF o.kind = "response"
            THEN IF o.response # None
                 THEN IF HasId(o.response[1])
                      THEN [seen EXCEPT !.pc = "ended",
                                        !.response = o.response,
                                        !.outcome = Returned(o.response[1].id[1])]
                      ELSE \* raised inside the try: caught by except BaseException
                           [fail("An unexpected error occurred")
                                EXCEPT !.response = o.response]
                 ELSE [seen EXCEPT !.pc = IF up.error # None THEN "RETRY_WAIT"
                                          ELSE "SENDING"]
            ELSE IF o.kind = "HttpError"
            THEN IF IsRetriableStatus(o.status)
                 THEN retriable("A retriable HTTP error occurred")
                 ELSE fail("An HTTP error occurred")
            ELSE IF o.kind \in RETRIABLE_EXCEPTIONS
            THEN retriable("A retriable error occurred")
            ELSE fail("An unexpected error occurred")
    /\ UNCHANGED <<rd, cm, vd>>

\* Lines 125-137, entered with error set: count the retry, give up past
\* _MAX_RETRIES, else sleep random.random() * 2 ** retry seconds (k / RandDen
\* stands for random.random()).
Backoff(k) ==
    /\ up.pc = "RETRY_WAIT"
    /\ LET retry == up.retry + 1
           max_sleep == 2 ^ retry
       IN up' = IF Exhausted(retry)
                THEN [up EXCEPT !.retry = retry, !.pc = "ended",
                                !.outcome = Raised("UploadException",
                                                   "No longer attempting to retry")]
                ELSE [up EXCEPT !.retry = retry, !.pc = "SENDING",
                                !.sleeps = @ + 1,
                                !.slept = Some([num |-> k * max_sleep,
                                                den |-> RandDen,
                                                retry |-> retry])]
    /\ UNCHANGED <<rd, cm, vd>>

NextUpload ==
    \/ \E args \in UploadArgs : Upload(args)
    \/ \E o \in ChunkOutcomes : NextChunk(o)
    \/ \E k \in 0 .. (RandDen - 1) : Backoff(k)

SpecUpload == InitUpload /\ [][NextUpload]_vars

(***************************************************************************)
(* Properties of the uploader                                              *)
(***************************************************************************)

UploadArgsValid == up.args # None /\ ValidateUpload(up.args[1]) = None

NoValidCredential ==
    \/ ~up.oauth.exists
    \/ up.oauth.creds = None
    \/ up.oauth.creds[1].invalid

\* C1: upload with valid arguments and no valid credential raises
\* AuthException: it returns nothing, builds no API client and never calls
\* next_chunk.
C1_NoCredentialRaisesAuthException ==
    (up.pc = "ended" /\ UploadArgsValid /\ NoValidCredential)
        => /\ up.outcome.kind = "raise"
           /\ up.outcome.exc = "AuthException"
           /\ ~up.built
           /\ up.calls = 0

\* C2: n <= 10 retriable faults in a row and then a response with an id: the
\* loop survives every one of the faults, and returns that id after n sleeps
\* and n + 1 next_chunk calls.
C2_RetriesThenIdReturnsId ==
    /\ (/\ up.last # None
        /\ IdResponse(up.last[1])
        /\ up.calls = up.faults + 1
        /\ up.faults <= 10)
           => /\ up.pc = "ended"
              /\ up.outcome = Returned(up.last[1].response[1].id[1])
              /\ up.sleeps = up.faults
    /\ (/\ up.last # None
        /\ RetriableFault(up.last[1])
        /\ up.calls = up.faults
        /\ up.faults <= 10)
           => \/ up.pc = "RETRY_WAIT" /\ up.sleeps = up.faults - 1
              \/ up.pc = "SENDING" /\ up.sleeps = up.faults

C2_Witness ==
    /\ up.pc = "ended"
    /\ up.last # None
    /\ IdResponse(up.last[1])
    /\ up.faults = 10
    /\ up.calls = 11
    /\ up.sleeps = 10
    /\ up.outcome = Returned("abc123")

\* C3: a non-retriable HTTP fault ends the call with UploadException in the
\* step that raises it, without counting a retry or sleeping, and nothing
\* (no sleep, no next_chunk call, no retry) happens after it.
C3_NonRetriableHttpFailsAtOnce ==
    [][/\ (up'.calls = up.calls + 1 /\ NonRetriableHttpFault(up'.last[1]))
           => /\ up'.pc = "ended"
              /\ up'.outcome.kind = "raise"
              /\ up'.outcome.exc = "UploadException"
              /\ up'.retry = up.retry
              /\ up'.sleeps = up.sleeps
       /\ (up.last # None /\ NonRetriableHttpFault(up.last[1]))
           => /\ up'.calls = up.calls
              /\ up'.sleeps = up.sleeps
              /\ up'.retry = up.retry]_vars

C3_Witness ==
    /\ up.pc = "ended"
    /\ up.last # None
    /\ NonRetriableHttpFault(up.last[1])
    /\ up.faults >= 2
    /\ up.sleeps >= 2
    /\ up.outcome.exc = "UploadException"

\* C4: the retry counter never passes 11 and at most 10 sleeps happen; the
\* call fails with "retries exhausted" exactly when the counter has reached
\* 11, and that step does not sleep; every sleep is in [0, 2^retry) with
\* retry in 1..10.
C4_RetriesAndSleepsBounded ==
    /\ up.retry <= 11
    /\ up.sleeps <= 10
    /\ up.sleeps = (IF up.retry > 10 THEN 10 ELSE up.retry)
    /\ (up.retry = 11)
         <=> (up.outcome = Raised("UploadException", "No longer attempting to retry"))
    /\ up.retry = 11 => up.pc = "ended"
    /\ up.slept # None
         => LET s == up.slept[1]
            IN /\ s.retry \in 1 .. 10
               /\ 0 <= s.num
               /\ s.num < (2 ^ s.retry) * s.den

C4_Witness ==
    /\ up.pc = "ended"
    /\ up.retry = 11
    /\ up.sleeps = 10
    /\ up.slept # None
    /\ up.slept[1].retry = 10
    /\ up.slept[1].num > 0
    /\ up.outcome = Raised("UploadException", "No longer attempting to retry")

\* The last next_chunk returned without fault and with no response yet.
StillInProgress ==
    /\ up.last # None
    /\ up.last[1].kind = "response"
    /\ up.last[1].response = None

\* C12: the retry counter is incremented and a backoff sleep is performed
\* only in an iteration whose own next_chunk raised a retriable fault: after
\* a next_chunk that returned without fault and with no response the loop
\* is not waiting to back off, and neither the retry counter nor the number
\* of sleeps ever exceeds the number of retriable faults raised.
C12_BackoffOnlyAfterOwnFault ==
    /\ StillInProgress => up.pc # "RETRY_WAIT"
    /\ up.retry <= up.faults
    /\ up.sleeps <= up.faults

(***************************************************************************)
(* readers/reddit.py: RedditReader                                         *)
(***************************************************************************)

VALID_TIME_FILTERS == {"all", "day", "hour", "month", "week", "year"}

\* The 60 * 60 of RedditArticle.age: timestamps are seconds, ages are hours.
SecondsPerHour == 60 * 60

\* ---- bounds of the reader model ----

\* Submissions in the listing the content client holds.
MaxArticles == 3

\* ---- inputs ----

Scores == {1, 2, 3}

\* datetime.now().timestamp() during the call, and the creation times of the
\* submissions: half an hour and two hours before.
CurTime == 4 * SecondsPerHour

CreatedTimes == {CurTime - 2 * SecondsPerHour, CurTime - (SecondsPerHour \div 2)}

\* The listings of the subreddit: submission i is the i-th one of the listing.
Listings ==
    UNION { { [i \in 1 .. n |-> [id |-> i, score |-> sc[i], created_utc |-> cr[i]]] :
                  sc \in [1 .. n -> Scores], cr \in [1 .. n -> CreatedTimes] } :
            n \in 0 .. MaxArticles }

\* How the content client behaves: no fault, or an exception raised when the
\* listing is requested (sub.hot / sub.top) or while the returned listing is
\* iterated. ClientException derives from praw.exceptions.PRAWException,
\* ResponseException (prawcore) does not.
ClientFaults ==
    { [at |-> "never", exc |-> "", msg |-> ""] }
    \cup { [at |-> a, exc |-> e, msg |-> "received 503 HTTP response"] :
               a \in {"request", "iterate"},
               e \in {"ClientException", "ResponseException"} }

TimeFilters == VALID_TIME_FILTERS \cup {"decade"}

Limits == {None, Some(-1), Some(0), Some(2)}

MinScores == {None, Some(2)}

MinAges == {None, Some(2)}

\* ---- helpers ----

\* isinstance(e, praw.exceptions.PRAWException)
IsPRAWException(exc) == exc \in {"PRAWException", "ClientException"}

\* limit and max(1, limit) or None
ClampLimit(limit) ==
    IF limit = None \/ limit[1] = 0 THEN None
    ELSE Some(IF limit[1] > 1 THEN limit[1] ELSE 1)

\* The submissions the content client yields for a limit.
Fetch(listing, limit) ==
    IF limit = None \/ limit[1] >= Len(listing) THEN listing
    ELSE SubSeq(listing, 1, limit[1])

\* art.age < min_age, with age = (curtime - created) / (60 * 60)
TooYoung(art, min_age, curtime) ==
    (curtime - art.created_utc) < min_age * SecondsPerHour

\* KeepsArticle dropping the articles of score min_score too.
KeepsArticleStrict(art, min_score, min_age, curtime) ==
    /\ ~(min_score # None /\ art.score <= min_score[1])
    /\ ~(min_age # None /\ TooYoung(art, min_age[1], curtime))

\* The body of the loop of _filter_articles: whether art is appended.
KeepsArticle(art, min_score, min_age, curtime) ==
    /\ ~(min_score # None /\ art.score < min_score[1])
    /\ ~(min_age # None /\ TooYoung(art, min_age[1], curtime))

\* _filter_articles
FilterArticles(articles, min_score, min_age, curtime) ==
    LET keeps(art) == KeepsArticle(art, min_score, min_age, curtime)
    IN SelectSeq(articles, keeps)

\* InsertByScore putting x before the elements of its own score (a sort that
\* is not stable).
RECURSIVE InsertByScoreFirst(_, _)
InsertByScoreFirst(sorted, x) ==
    IF sorted = <<>> THEN <<x>>
    ELSE IF Head(sorted).score > x.score
         THEN <<Head(sorted)>> \o InsertByScoreFirst(Tail(sorted), x)
         ELSE <<x>> \o sorted

\* x put into a list sorted by score, descending, behind every element whose
\* score is not smaller.
RECURSIVE InsertByScore(_, _)
InsertByScore(sorted, x) ==
    IF sorted = <<>> THEN <<x>>
    ELSE IF Head(sorted).score >= x.score
         THEN <<Head(sorted)>> \o InsertByScore(Tail(sorted), x)
         ELSE <<x>> \o sorted

\* list.sort(key=lambda x: x.score, reverse=True): a stable sort, elements of
\* equal score keep their order. (get_comments sorts after every append,
\* which is this insertion, element by element.)
RECURSIVE SortByScore(_)
SortByScore(s) ==
    IF s = <<>> THEN <<>>
    ELSE InsertByScore(SortByScore(SubSeq(s, 1, Len(s) - 1)), s[Len(s)])

\* ---- state ----

ReaderStart(listing, fault) ==
    [pc |-> "start", listing |-> listing, fault |-> fault, curtime |-> CurTime,
     call |-> None, requests |-> 0, faulted |-> FALSE, fetched |-> <<>>,
     result |-> <<>>, outcome |-> NoOutcome]

InitReader ==
    /\ rd \in {ReaderStart(l, f) : l \in Listings, f \in ClientFaults}
    /\ up = IdleUp
    /\ cm = IdleCm
    /\ vd = IdleVd

\* What get_hot_articles and get_top_articles share, from the limit on: the
\* request of the listing inside the try statement, then, outside of it, the
\* iteration of the listing, the filter and the sort.
ListArticles(call) ==
    LET limit == ClampLimit(call.limit)
        asked == [rd EXCEPT !.pc = "done", !.call = Some(call), !.requests = @ + 1]
        fetched == Fetch(rd.listing, limit)
        filtered == FilterArticles(fetched, call.min_score, call.min_age, rd.curtime)
    IN IF rd.fault.at = "request"
       THEN [asked EXCEPT !.faulted = TRUE,
                          !.outcome = IF IsPRAWException(rd.fault.exc)
                                      THEN Raised("RedditApiException", rd.fault.msg)
                                      ELSE Raised(rd.fault.exc, rd.fault.msg)]
       ELSE IF rd.fault.at = "iterate"
       THEN [asked EXCEPT !.faulted = TRUE,
                          !.outcome = Raised(rd.fault.exc, rd.fault.msg)]
       ELSE [asked EXCEPT !.fetched = fetched,
                          !.result = SortByScore(filtered),
                          !.outcome = Returned("list")]

GetHotArticles(limit, min_score, min_age) ==
    /\ rd.pc = "start"
    /\ rd' = ListArticles([mode |-> "hot", time_filter |-> "", limit |-> limit,
                           min_score |-> min_score, min_age |-> min_age])
    /\ UNCHANGED <<up, cm, vd>>

GetTopArticles(time_filter, limit, min_score, min_age) ==
    /\ rd.pc = "start"
    /\ LET call == [mode |-> "top", time_filter |-> time_filter, limit |-> limit,
                    min_score |-> min_score, min_age |-> min_age]
       IN rd' = IF time_filter \notin VALID_TIME_FILTERS
                THEN [rd EXCEPT !.pc = "done", !.call = Some(call),
                                !.outcome = Raised("RedditApiException",
                                                   "time_filter must be one of")]
                ELSE ListArticles(call)
    /\ UNCHANGED <<up, cm, vd>>

NextReader ==
    \/ \E l \in Limits, ms \in MinScores, ma \in MinAges : GetHotArticles(l, ms, ma)
    \/ \E tf \in TimeFilters, l \in Limits, ms \in MinScores, ma \in MinAges :
           GetTopArticles(tf, l, ms, ma)

SpecReader == InitReader /\ [][NextReader]_vars

(***************************************************************************)
(* Properties of the reader                                                *)
(***************************************************************************)

\* score >= minScore (when given) and age >= minAge hours (when given)
Qualifies(art) ==
    /\ rd.call[1].min_score # None => art.score >= rd.call[1].min_score[1]
    /\ rd.call[1].min_age # None
         => (rd.curtime - art.created_utc) >= rd.call[1].min_age[1] * SecondsPerHour

ListingReturned == rd.pc = "done" /\ rd.outcome.kind = "return"

\* C5: the result of get_hot_articles / get_top_articles is exactly the
\* fetched articles that qualify, each once, by score non-increasing, and
\* articles of equal score are in the order of the fetched listing.
C5_ResultIsQualifyingSortedStable ==
    ListingReturned =>
        /\ \A i \in DOMAIN rd.result :
               /\ \E j \in DOMAIN rd.fetched : rd.fetched[j] = rd.result[i]
               /\ Qualifies(rd.result[i])
        /\ \A j \in DOMAIN rd.fetched :
               Qualifies(rd.fetched[j])
                   => Cardinality({i \in DOMAIN rd.result :
                                       rd.result[i] = rd.fetched[j]}) = 1
        /\ \A i, k \in DOMAIN rd.result :
               i < k => \/ rd.result[i].score > rd.result[k].score
                        \/ /\ rd.result[i].score = rd.result[k].score
                           /\ rd.result[i].id < rd.result[k].id

\* Two articles dropped (one by score, one by age) and two of equal score
\* returned.
C5_Witness ==
    /\ ListingReturned
    /\ rd.call[1].min_score # None
    /\ rd.call[1].min_age # None
    /\ Len(rd.fetched) = 3
    /\ Len(rd.result) = 2
    /\ rd.result[1].score = rd.result[2].score
    /\ \E j \in DOMAIN rd.fetched : rd.fetched[j].score < rd.call[1].min_score[1]

\* C6: get_top_articles with an invalid time_filter fails with an error that
\* is not the one of a failed listing fetch (RedditApiException), before any
\* call to the content client.
C6_BadTimeFilterIsInvalidArgument ==
    (/\ rd.pc = "done"
     /\ rd.call[1].mode = "top"
     /\ rd.call[1].time_filter \notin {"all", "day", "hour", "month", "week", "year"})
        => /\ rd.outcome.kind = "raise"
           /\ rd.outcome.exc # "RedditApiException"
           /\ rd.requests = 0

\* C7: every failure of the content client, at the request of the listing or
\* during its iteration, reaches the caller as a RedditApiException carrying
\* the message of the failure.
C7_ClientFailureIsRedditApiException ==
    (rd.pc = "done" /\ rd.faulted)
        => rd.outcome = Raised("RedditApiException", rd.fault.msg)

(***************************************************************************)
(* readers/reddit.py: RedditComment, RedditArticle.get_comments            *)
(***************************************************************************)

\* ---- bounds of the comment model ----

\* Top-level nodes of an article's comment forest.
MaxTop == 2

\* Replies under one comment node.
MaxReplies == 2

\* ---- inputs ----

\* A node of the forest PRAW hands out: a Comment, or a MoreComments
\* placeholder ("load more").
PrawComment(author, body, score) ==
    [kind |-> "Comment", author |-> author, body |-> body, score |-> score]

MoreComments == [kind |-> "MoreComments", author |-> None, body |-> "", score |-> 0]

TopNodes ==
    { PrawComment(Some("alice"), "nice", sc) : sc \in {-2, 1, 2} }
    \cup { PrawComment(None, "[removed]", 2),
           PrawComment(Some("bob"), "[deleted]", 2),
           MoreComments }

ReplyNodes ==
    { PrawComment(Some("carol"), "indeed", sc) : sc \in {1, 2} } \cup {MoreComments}

TopLists == UNION { [1 .. n -> TopNodes] : n \in 0 .. MaxTop }

ReplyLists == UNION { [1 .. n -> ReplyNodes] : n \in 0 .. MaxReplies }

MaxCommentsArgs == {-1, 0, 1, 2}

MaxDepthArgs == {-1, 1, 2}

\* percent_thres, a fraction num / den with den > 0.
PercentThresArgs ==
    { [num |-> -1, den |-> 1], [num |-> 1, den |-> 2], [num |-> 1, den |-> 1] }

\* ---- helpers ----

Max(a, b) == IF a >= b THEN a ELSE b

\* max(0, percent_thres)
ClampThres(t) == IF t.num < 0 THEN [num |-> 0, den |-> 1] ELSE t

\* RedditComment.from_praw: a comment without a child.
FromPraw(praw_comment) ==
    [author |-> praw_comment.author, text |-> praw_comment.body,
     score |-> praw_comment.score, child |-> None]

\* The comments reached from c by following child, c included.
RECURSIVE Chain(_)
Chain(c) == IF c.child = None THEN <<c>> ELSE <<c>> \o Chain(c.child[1])

\* c with child stored as the child of the last comment of its chain: the
\* assignment comment.child = child of _expand_comment, seen from the
\* top-level comment.
RECURSIVE AttachLast(_, _)
AttachLast(c, child) ==
    IF c.child = None THEN [c EXCEPT !.child = Some(child)]
    ELSE [c EXCEPT !.child = Some(AttachLast(c.child[1], child))]

\* The nodes of a listing that are comments (the isinstance test).
OnlyComments(nodes) ==
    LET isComment(n) == n.kind = "Comment" IN SelectSeq(nodes, isComment)

\* OverThres with >= for >.
OverThresInclusive(best_score, parent_score, thres) ==
    best_score * thres.den >= parent_score * thres.num

\* best_reply.score > comment.score * percent_thres
OverThres(best_score, parent_score, thres) ==
    best_score * thres.den > parent_score * thres.num

\* BestReply with >= for >: of the replies of the highest score the last one.
RECURSIVE BestReplyLast(_, _, _)
BestReplyLast(replies, i, best) ==
    IF i > Len(replies) THEN best
    ELSE IF replies[i].kind # "Comment" THEN BestReplyLast(replies, i + 1, best)
    ELSE IF best = 0 THEN BestReplyLast(replies, i + 1, i)
    ELSE IF replies[i].score >= replies[best].score
         THEN BestReplyLast(replies, i + 1, i)
    ELSE BestReplyLast(replies, i + 1, best)

\* The loop of _expand_comment from reply i on: the index of best_reply, 0
\* for None.
RECURSIVE BestReply(_, _, _)
BestReply(replies, i, best) ==
    IF i > Len(replies) THEN best
    ELSE IF replies[i].kind # "Comment" THEN BestReply(replies, i + 1, best)
    ELSE IF best = 0 THEN BestReply(replies, i + 1, i)
    ELSE IF replies[i].score > replies[best].score
         THEN BestReply(replies, i + 1, i)
    ELSE BestReply(replies, i + 1, best)

\* Take without the cut.
TakeAll(s, n) == s

\* s[:n] for n >= 0
Take(s, n) == IF n >= Len(s) THEN s ELSE SubSeq(s, 1, n)

\* ---- state ----

\* article: the top-level nodes of the article's comments. praw_comments,
\* idx and comments are the sorted and cut list, the position of the for loop
\* over it and the result list of get_comments; comment is the top-level
\* comment under expansion, depth the max_depth of the pending
\* _expand_comment call; expand records the last _expand_comment call: the
\* comment it was called for, the replies of its node, the index of
\* best_reply (0 for None), the children above it and whether it attached.
CommentsStart(article) ==
    [pc |-> "start", article |-> article, args |-> None,
     max_comments |-> 0, max_depth |-> 0, percent_thres |-> [num |-> 0, den |-> 1],
     praw_comments |-> <<>>, idx |-> 0, comments |-> <<>>,
     comment |-> None, depth |-> 0, expand |-> None]

InitComments ==
    /\ cm \in {CommentsStart(a) : a \in TopLists}
    /\ up = IdleUp
    /\ rd = IdleRd
    /\ vd = IdleVd

\* get_comments up to its second loop: the arguments are clamped, the
\* comment nodes collected and sorted by score, descending.
GetComments(max_comments, max_depth, percent_thres) ==
    /\ cm.pc = "start"
    /\ LET mc == Max(1, max_comments)
       IN cm' = [cm EXCEPT
                   !.pc = "loop",
                   !.args = Some([max_comments |-> max_comments,
                                  max_depth |-> max_depth,
                                  percent_thres |-> percent_thres]),
                   !.max_comments = mc,
                   !.max_depth = Max(0, max_depth),
                   !.percent_thres = ClampThres(percent_thres),
                   !.praw_comments = Take(SortByScore(OnlyComments(cm.article)), mc),
                   !.idx = 1]
    /\ UNCHANGED <<up, rd, vd>>

\* One pass of "for praw_comment in praw_comments[:max_comments]" up to the
\* call of _expand_comment: a comment without author or with the deleted
\* marker as its text is skipped.
NextComment ==
    /\ cm.pc = "loop"
    /\ cm.idx <= Len(cm.praw_comments)
    /\ LET comment == FromPraw(cm.praw_comments[cm.idx])
       IN cm' = IF comment.author = None \/ comment.text = "[deleted]"
                THEN [cm EXCEPT !.idx = @ + 1, !.expand = None]
                ELSE [cm EXCEPT !.pc = "expand", !.comment = Some(comment),
                                !.depth = cm.max_depth, !.expand = None]
    /\ UNCHANGED <<up, rd, vd>>

\* One call of _expand_comment, for the last comment of the chain under
\* cm.comment, whose PRAW node has the given replies. It attaches the best
\* reply and calls itself for it, or it returns; every pending call then
\* returns too and get_comments appends the top-level comment.
ExpandComment(replies) ==
    /\ cm.pc = "expand"
    /\ cm.depth <= 0 => replies = <<>>
    /\ LET chain == Chain(cm.comment[1])
           comment == chain[Len(chain)]
           best == BestReply(replies, 1, 0)
           attach == /\ cm.depth > 0
                     /\ best # 0
                     /\ OverThres(replies[best].score, comment.score,
                                  cm.percent_thres)
           seen == [parent |-> comment, replies |-> replies, best_reply |-> best,
                    level |-> Len(chain) - 1, attached |-> attach]
       IN cm' = IF attach
                THEN [cm EXCEPT
                        !.comment = Some(AttachLast(cm.comment[1],
                                                    FromPraw(replies[best]))),
                        !.depth = @ - 1,
                        !.expand = Some(seen)]
                ELSE [cm EXCEPT
                        !.pc = "loop",
                        !.comments = Append(@, cm.comment[1]),
                        !.comment = None,
                        !.idx = @ + 1,
                        !.expand = Some(seen)]
    /\ UNCHANGED <<up, rd, vd>>

\* return comments
ReturnComments ==
    /\ cm.pc = "loop"
    /\ cm.idx > Len(cm.praw_comments)
    /\ cm' = [cm EXCEPT !.pc = "done", !.expand = None]
    /\ UNCHANGED <<up, rd, vd>>

NextComments ==
    \/ \E mc \in MaxCommentsArgs, md \in MaxDepthArgs, pt \in PercentThresArgs :
           GetComments(mc, md, pt)
    \/ NextComment
    \/ \E replies \in ReplyLists : ExpandComment(replies)
    \/ ReturnComments

SpecComments == InitComments /\ [][NextComments]_vars

(***************************************************************************)
(* Properties of get_comments                                              *)
(***************************************************************************)

CommentsReturned == cm.pc = "done"

TopLevelSortedAndLive ==
    /\ \A i, k \in DOMAIN cm.comments :
           i < k => cm.comments[i].score >= cm.comments[k].score
    /\ \A i \in DOMAIN cm.comments :
           /\ cm.comments[i].author # None
           /\ cm.comments[i].text # "[deleted]"

\* C8 as stated: for every max_comments the caller passes, zero and negative
\* values too, the result is no longer than max_comments, its top-level
\* comments are by score non-increasing, and none has no author or the
\* deleted marker as text.
C8_AtMostMaxCommentsAsPassed ==
    CommentsReturned =>
        /\ Len(cm.comments) <= cm.args[1].max_comments
        /\ TopLevelSortedAndLive

\* C8 amended: the result is no longer than max(1, max_comments); the rest
\* as stated.
C8_AtMostClampedMaxComments ==
    CommentsReturned =>
        /\ Len(cm.comments) <= Max(1, cm.args[1].max_comments)
        /\ TopLevelSortedAndLive

\* max_comments = 0 and one comment returned, of an article with two comment
\* nodes.
C8_Witness ==
    /\ CommentsReturned
    /\ cm.args[1].max_comments = 0
    /\ Len(cm.comments) = 1
    /\ Len(OnlyComments(cm.article)) = 2

\* Reply i is a comment of the highest score among the comments of replies,
\* and the first of that score.
IsFirstHighest(replies, i) ==
    /\ replies[i].kind = "Comment"
    /\ \A j \in DOMAIN replies :
           replies[j].kind = "Comment"
               => /\ replies[j].score <= replies[i].score
                  /\ j < i => replies[j].score < replies[i].score

\* childScore > parentScore * thres
PassesThres(child_score, parent_score, thres) ==
    child_score * thres.den > parent_score * thres.num

\* Descendants attached under a top-level comment.
Descendants(c) == Len(Chain(c)) - 1

\* What C9 says of the states of the expansion, for the threshold thres.
ExpansionRespects(thres) ==
    cm.args # None =>
        LET cap == Max(0, cm.args[1].max_depth)
        IN /\ \A i \in DOMAIN cm.comments : Descendants(cm.comments[i]) <= cap
           /\ cm.comment # None
                => /\ Descendants(cm.comment[1]) <= cap
                   /\ cm.depth >= 0
                   /\ cm.depth + Descendants(cm.comment[1]) = cap
           /\ cm.expand # None
                => LET e == cm.expand[1]
                   IN /\ e.attached
                           => /\ e.level < cap
                              /\ e.best_reply \in DOMAIN e.replies
                              /\ IsFirstHighest(e.replies, e.best_reply)
                              /\ Chain(cm.comment[1])[e.level + 2]
                                     = FromPraw(e.replies[e.best_reply])
                              /\ PassesThres(e.replies[e.best_reply].score,
                                             e.parent.score, thres)
                      /\ (\E i \in DOMAIN e.replies :
                              /\ IsFirstHighest(e.replies, i)
                              /\ ~PassesThres(e.replies[i].score,
                                              e.parent.score, thres))
                           => ~e.attached
                      /\ ~e.attached
                           => /\ cm.pc = "loop"
                              /\ cm.comments # <<>>
                              /\ Descendants(cm.comments[Len(cm.comments)]) = e.level

\* C9 as stated: the chain under a top-level comment has at most
\* max(0, max_depth) descendants; a child is the first reply of the highest
\* score among the comment replies of its parent's node and its score is
\* over parentScore * percent_thres, with percent_thres as passed; when the
\* best reply is not over it, nothing is attached and the branch ends.
C9_ExpansionWithThresholdAsPassed ==
    ExpansionRespects(IF cm.args = None THEN [num |-> 0, den |-> 1]
                      ELSE cm.args[1].percent_thres)

\* C9 amended: the same with max(0, percent_thres) as the threshold. The
\* expansion terminates: every _expand_comment call that calls itself again
\* passes on a smaller max_depth, which never falls below 0.
C9_ExpansionWithClampedThreshold ==
    /\ [](ExpansionRespects(
              IF cm.args = None \/ cm.args[1].percent_thres.num < 0
              THEN [num |-> 0, den |-> 1]
              ELSE cm.args[1].percent_thres))
    /\ [][(cm.pc = "expand" /\ cm'.pc = "expand")
             => (cm'.depth < cm.depth /\ cm'.depth >= 0)]_vars

\* A negative percent_thres, a parent of negative score, two comment replies
\* of equal score: the first is attached.
C9_Witness ==
    /\ cm.expand # None
    /\ cm.expand[1].attached
    /\ cm.expand[1].parent.score < 0
    /\ cm.args[1].percent_thres.num < 0
    /\ Len(cm.expand[1].replies) = 2
    /\ cm.expand[1].replies[1].kind = "Comment"
    /\ cm.expand[1].replies[2].kind = "Comment"
    /\ cm.expand[1].replies[1].score = cm.expand[1].replies[2].score
    /\ cm.comment[1].child[1] = FromPraw(cm.expand[1].replies[1])

(***************************************************************************)
(* readers/reddit.py: RedditArticle.has_video, RedditArticle.get_video     *)
(***************************************************************************)

\* ---- inputs ----

\* A URL as urlsplit sees it; its path is dir, name and ext in a row, ext
\* being what os.path.splitext splits off.
FallbackUrls ==
    { [netloc |-> "v.redd.it", dir |-> "/abc/", name |-> "DASH_240", ext |-> e,
       query |-> q, fragment |-> ""] :
          e \in {".mp4", ""}, q \in {"source=fallback", ""} }

RedditVideos ==
    { [is_gif |-> g, duration |-> d, fallback_url |-> u] :
          g \in BOOLEAN, d \in {5, 30}, u \in FallbackUrls }

\* submission.media: None, or a dict that may hold "reddit_video" and "type".
Medias ==
    { None }
    \cup { Some([reddit_video |-> rv, type |-> t]) :
               rv \in {None} \cup {Some(v) : v \in RedditVideos},
               t \in {None, Some("youtube.com"), Some("vimeo.com")} }

Durations == {None, Some(10), Some(20)}

\* Status codes of requests.head on the audio URL.
HeadStatuses == {200, 403}

\* ---- helpers ----

\* has_video
HasVideo(media, min_duration, max_duration, include_youtube) ==
    IF media = None THEN FALSE
    ELSE IF media[1].reddit_video # None
    THEN LET reddit_video == media[1].reddit_video[1]
             dur == reddit_video.duration
         IN /\ ~reddit_video.is_gif
            /\ max_duration = None \/ dur <= max_duration[1]
            /\ min_duration = None \/ dur >= min_duration[1]
    ELSE IF media[1].type # None
    THEN media[1].type[1] = "youtube.com" /\ include_youtube
    ELSE FALSE

\* The audio URL get_video derives from the fallback URL: the last segment
\* of the path replaced, query and fragment dropped.
AudioUrl(video_url) ==
    [netloc |-> video_url.netloc, dir |-> video_url.dir,
     name |-> IF video_url.ext = ".mp4" THEN "DASH_audio" ELSE "audio",
     ext |-> IF video_url.ext = ".mp4" THEN ".mp4" ELSE "",
     query |-> "", fragment |-> ""]

VideoRef(video_url, audio_url, duration) ==
    [kind |-> "return", exc |-> "", video_url |-> Some(video_url),
     audio_url |-> audio_url, duration |-> duration]

VideoRaised(e) ==
    [kind |-> "raise", exc |-> e, video_url |-> None, audio_url |-> None,
     duration |-> 0]

\* GetVideo without its has_video test.
GetVideoUnchecked(media, head_status) ==
    IF media # None /\ media[1].reddit_video # None
    THEN LET reddit_video == media[1].reddit_video[1]
         IN VideoRef(reddit_video.fallback_url,
                     IF head_status # 200 THEN None
                     ELSE Some(AudioUrl(reddit_video.fallback_url)),
                     reddit_video.duration)
    ELSE VideoRaised("NotImplementedError")

\* get_video, with head_status the answer of the probe of the audio URL.
GetVideo(media, head_status) ==
    IF ~HasVideo(media, None, None, TRUE)
    THEN VideoRaised("RedditVideoNotFound")
    ELSE IF media[1].reddit_video # None
    THEN LET reddit_video == media[1].reddit_video[1]
         IN VideoRef(reddit_video.fallback_url,
                     IF head_status # 200 THEN None
                     ELSE Some(AudioUrl(reddit_video.fallback_url)),
                     reddit_video.duration)
    ELSE VideoRaised("NotImplementedError")

\* ---- state ----

\* An article with its media; has and got are the last has_video call (its
\* arguments and its answer) and the outcome of the last get_video call.
VideoStart(media) == [pc |-> "article", media |-> media, has |-> None, got |-> None]

InitVideo ==
    /\ vd \in {VideoStart(m) : m \in Medias}
    /\ up = IdleUp
    /\ rd = IdleRd
    /\ cm = IdleCm

CallHasVideo(min_duration, max_duration, include_youtube) ==
    /\ vd.pc = "article"
    /\ vd' = [vd EXCEPT !.has =
                 Some([min_duration |-> min_duration,
                       max_duration |-> max_duration,
                       include_youtube |-> include_youtube,
                       result |-> HasVideo(vd.media, min_duration, max_duration,
                                           include_youtube)])]
    /\ UNCHANGED <<up, rd, cm>>

CallGetVideo(head_status) ==
    /\ vd.pc = "article"
    /\ vd' = [vd EXCEPT !.got = Some(GetVideo(vd.media, head_status))]
    /\ UNCHANGED <<up, rd, cm>>

NextVideo ==
    \/ \E mn \in Durations, mx \in Durations, yt \in BOOLEAN : CallHasVideo(mn, mx, yt)
    \/ \E st \in HeadStatuses : CallGetVideo(st)

SpecVideo == InitVideo /\ [][NextVideo]_vars

(***************************************************************************)
(* Properties of has_video and get_video                                   *)
(***************************************************************************)

GetVideoNotFound ==
    vd.got[1].kind = "raise" /\ vd.got[1].exc = "RedditVideoNotFound"

\* C10 as stated: for every choice of the arguments of has_video, when
\* has_video is false for an article, get_video on it fails with
\* RedditVideoNotFound.
C10_HasVideoFalseThenNotFound ==
    (vd.has # None /\ vd.got # None /\ ~vd.has[1].result) => GetVideoNotFound

\* C10 amended: when has_video with its default arguments (no duration
\* bounds, include_youtube true) is false for an article, get_video on it
\* fails with RedditVideoNotFound.
C10_DefaultHasVideoFalseThenNotFound ==
    (/\ vd.has # None
     /\ vd.got # None
     /\ vd.has[1].min_duration = None
     /\ vd.has[1].max_duration = None
     /\ vd.has[1].include_youtube
     /\ ~vd.has[1].result) => GetVideoNotFound

\* A looping-image video: has_video() is false and get_video has failed.
C10_Witness ==
    /\ vd.has # None
    /\ vd.got # None
    /\ vd.has[1].min_duration = None
    /\ vd.has[1].max_duration = None
    /\ vd.has[1].include_youtube
    /\ ~vd.has[1].result
    /\ vd.media # None
    /\ vd.media[1].reddit_video # None
    /\ vd.media[1].reddit_video[1].is_gif
    /\ GetVideoNotFound

(***************************************************************************)
(* readers/reddit.py: RedditComment.child                                  *)
(*                                                                         *)
(* In SpecChild cm holds RedditComment objects: heap[i] is object i, whose *)
(* child is None or the number of the object its _child refers to.         *)
(***************************************************************************)

\* ---- bounds of the object model ----

\* RedditComment objects in the heap: the stored chain and the copies that
\* reads of child make.
MaxObjects == 5

\* Child assignments the caller makes.
MaxAssigns == 3

\* ---- inputs ----

CommentObject(author, score, child) ==
    [author |-> Some(author), text |-> "nice", score |-> score, child |-> child]

\* What get_comments returns for one top-level comment: object 1 is the
\* comment C, its chain has no, one or two descendants.
StoredHeaps ==
    { <<CommentObject("alice", 5, None)>>,
      <<CommentObject("alice", 5, Some(2)), CommentObject("carol", 3, None)>>,
      <<CommentObject("alice", 5, Some(2)), CommentObject("carol", 3, Some(3)),
        CommentObject("erin", 2, None)>> }

\* ---- helpers ----

\* The getter handing out the stored object itself.
ChildGetterAlias(heap, self) == [heap |-> heap, value |-> heap[self].child]

\* The child getter, copy(self._child): None for no child, else a new object
\* with the attributes of the child, its _child reference included.
ChildGetter(heap, self) ==
    IF heap[self].child = None
    THEN [heap |-> heap, value |-> None]
    ELSE [heap |-> Append(heap, heap[heap[self].child[1]]),
          value |-> Some(Len(heap) + 1)]

\* The child setter: self._child = child
ChildSetter(heap, self, child) == [heap EXCEPT ![self].child = child]

\* ---- state ----

\* held: the objects the caller has a reference to; stored: the objects the
\* caller has handed to a child setter; assigns: the assignments made.
ChildStart(heap) ==
    [pc |-> "objects", heap |-> heap, held |-> {1}, stored |-> {}, assigns |-> 0]

InitChild ==
    /\ cm \in {ChildStart(h) : h \in StoredHeaps}
    /\ up = IdleUp
    /\ rd = IdleRd
    /\ vd = IdleVd

\* x = self.child, for an object the caller holds
ReadChild(self) ==
    /\ cm.pc = "objects"
    /\ self \in cm.held
    /\ Len(cm.heap) < MaxObjects
    /\ LET got == ChildGetter(cm.heap, self)
       IN cm' = [cm EXCEPT !.heap = got.heap,
                           !.held = IF got.value = None THEN @
                                    ELSE @ \cup {got.value[1]}]
    /\ UNCHANGED <<up, rd, vd>>

\* self.child = child, for objects the caller holds (child may be None)
AssignChild(self, child) ==
    /\ cm.pc = "objects"
    /\ self \in cm.held
    /\ child # None => child[1] \in cm.held
    /\ cm.assigns < MaxAssigns
    /\ cm' = [cm EXCEPT !.heap = ChildSetter(cm.heap, self, child),
                        !.assigns = @ + 1,
                        !.stored = IF child = None THEN @ ELSE @ \cup {child[1]}]
    /\ UNCHANGED <<up, rd, vd>>

NextChild ==
    \/ \E self \in 1 .. MaxObjects : ReadChild(self)
    \/ \E self \in 1 .. MaxObjects,
          child \in {None} \cup {Some(k) : k \in 1 .. MaxObjects} :
           AssignChild(self, child)

SpecChild == InitChild /\ [][NextChild]_vars

(***************************************************************************)
(* Properties of RedditComment.child                                       *)
(***************************************************************************)

\* The author, text and score of the comments reached from object c by the
\* stored child links, c first; at most fuel of them (a caller can tie the
\* links into a cycle).
RECURSIVE StoredChain(_, _, _)
StoredChain(heap, c, fuel) ==
    IF fuel = 0 THEN <<>>
    ELSE <<[author |-> heap[c].author, text |-> heap[c].text,
            score |-> heap[c].score]>>
         \o (IF heap[c].child = None THEN <<>>
             ELSE StoredChain(heap, heap[c].child[1], fuel - 1))

\* The objects reached from object c by the stored child links, c included.
RECURSIVE StoredObjects(_, _, _)
StoredObjects(heap, c, fuel) ==
    IF fuel = 0 THEN {}
    ELSE {c} \cup (IF heap[c].child = None THEN {}
                   ELSE StoredObjects(heap, heap[c].child[1], fuel - 1))

\* C11: reading child returns a copy. An object the caller holds is part of
\* what comment C (object 1) stores only if it is C or the caller handed it
\* to a child setter; a read never changes the chain stored under C, and an
\* assignment changes it only if it assigns to the child of C or of an
\* object the caller had handed to a child setter before.
C11_ChildReadsAreCopies ==
    /\ [](\A h \in cm.held :
              h \in StoredObjects(cm.heap, 1, MaxObjects + 1)
                  => (h = 1 \/ h \in cm.stored))
    /\ [][StoredChain(cm'.heap, 1, MaxObjects + 1)
              # StoredChain(cm.heap, 1, MaxObjects + 1)
          => /\ Len(cm'.heap) = Len(cm.heap)
             /\ \E h \in cm.held :
                  /\ h = 1 \/ h \in cm.stored
                  /\ cm'.heap[h].child # cm.heap[h].child
                  /\ \A i \in DOMAIN cm.heap :
                         i # h => cm'.heap[i] = cm.heap[i]]_vars

\* The caller has read the child of C and the child of that copy, and has
\* cut the child of the first copy: C still stores its three comments.
C11_Witness ==
    /\ Len(cm.heap) = 5
    /\ cm.held = {1, 4, 5}
    /\ cm.stored = {}
    /\ cm.heap[4].author = Some("carol")
    /\ cm.heap[5].author = Some("erin")
    /\ cm.heap[4].child = None
    /\ cm.heap[2].child = Some(3)
    /\ Len(StoredChain(cm.heap, 1, MaxObjects + 1)) = 3

====
